---- MODULE Spec2Model ----
(***************************************************************************)
(* EthernetManager (ESP32 wired-interface manager): the singleton's state, *)
(* the event bridge, the initialisation sequencer, the blocking wait, the  *)
(* link poll and the reconnect backoff, as a state machine.                *)
(*                                                                         *)
(* inst   the singleton's fields (EthernetManager.h, private section) plus *)
(*        three observation fields that are not program state:             *)
(*          log   what the handler that ran last did (transitions made by  *)
(*                changeState, user callbacks invoked, ETH.begin called,   *)
(*                the result returned);                                    *)
(*          hist  history needed to state properties over runs;            *)
(*          locked  whether the running handler holds ethMutex (FALSE      *)
(*                between handlers).                                       *)
(* eth    the transceiver driver as seen through ETH.begin / ETH.linkUp.   *)
(* now    millis().                                                        *)
(* waiter the task inside waitForConnection (directly or through a         *)
(*        blocking initialize).                                            *)
(* mutexHolder  who holds ethMutex between handlers: "none", "other" (some  *)
(*        other task inside one of its guarded sections) or the task that  *)
(*        is inside the guarded section of internalInit.                   *)
(* fresh  a second, just-constructed instance that is given the same calls *)
(*        and events as inst: <<>> until there is one.                     *)
(* initTask  the position of each task that calls initializeAsync step by  *)
(*        step: before its call, at the MutexGuard of internalInit, inside *)
(*        ETH.begin with the mutex held, or returned.                      *)
(*                                                                         *)
(* Not modelled: logging, the event-batching queue, totalEventCount,       *)
(* lastGotIpTime (written, never read), the netif handle and the DNS       *)
(* helpers.                                                                *)
(***************************************************************************)
EXTENDS Integers, Sequences, FiniteSets, TLC

VARIABLES inst, eth, now, waiter, mutexHolder, fresh, initTask

vars == <<inst, eth, now, waiter, mutexHolder, fresh, initTask>>

(***************************************************************************)
(* Program constants (EthernetManagerConfig.h).                            *)
(***************************************************************************)
ETH_INIT_TIMEOUT_MS == 5000
ETH_CONNECTION_TRUST_WINDOW_MS == 3000
ETH_MAX_PHY_ADDRESS == 31
ETH_MAX_HOSTNAME_LENGTH == 63
ETH_WAIT_CHUNK_MS == 100
GPIO_NUM_MAX == 40
UINT8_MOD == 256

(***************************************************************************)
(* Bounds of the model.                                                    *)
(***************************************************************************)
StartMs == 1
TickMs == 3000
MaxTime == 3100
MaxCount == 2
MaxFires == 4

\* The clock of the waiting runs: one step is one wait slice.
WaitTickMs == 100

WaitMaxTime == 310

(***************************************************************************)
(* EthConnectionState and EthError.                                        *)
(***************************************************************************)
UNINITIALIZED == "UNINITIALIZED"
PHY_STARTING == "PHY_STARTING"
LINK_DOWN == "LINK_DOWN"
LINK_UP == "LINK_UP"
OBTAINING_IP == "OBTAINING_IP"
CONNECTED == "CONNECTED"
DISCONNECTING == "DISCONNECTING"
ERROR_STATE == "ERROR_STATE"

EthConnectionState ==
  {UNINITIALIZED, PHY_STARTING, LINK_DOWN, LINK_UP, OBTAINING_IP, CONNECTED,
   DISCONNECTING, ERROR_STATE}

EthError ==
  {"OK", "INVALID_PARAMETER", "MUTEX_TIMEOUT", "ALREADY_INITIALIZED",
   "NOT_INITIALIZED", "PHY_START_FAILED", "CONFIG_FAILED", "CONNECTION_TIMEOUT",
   "EVENT_HANDLER_FAILED", "MEMORY_ALLOCATION_FAILED", "NETIF_ERROR",
   "UNKNOWN_ERROR"}

Min(a, b) == IF a < b THEN a ELSE b

\* millis() - stamp in uint32_t.  Every stamp is an earlier reading of
\* millis() (or 0), and the model's time stays far below 2^32, so the
\* unsigned difference is the plain one.
Sub32(a, b) == a - b

\* delay * 2 in uint32_t: exact below 2^31, and the model's delays are.
Twice32(d) == d * 2

(***************************************************************************)
(* A software timer handle: nullptr is created = FALSE.                    *)
(***************************************************************************)
NoTimer == [created |-> FALSE, active |-> FALSE, period |-> 0]

NoStats ==
  [connectTime |-> 0, disconnectCount |-> 0, reconnectCount |-> 0,
   txPackets |-> 0, rxPackets |-> 0, txBytes |-> 0, rxBytes |-> 0,
   linkDownEvents |-> 0, dhcpRenewals |-> 0, lastErrorCode |-> 0,
   uptimeMs |-> 0]

\* failed: the call returned an error outcome (result is its error kind).
NoLog ==
  [op |-> "none", result |-> "none", failed |-> FALSE, begin |-> FALSE,
   trans |-> <<>>, cb |-> <<>>]

NoHist == [ipSinceDown |-> FALSE]

(***************************************************************************)
(* The instance after its constructor: the member initialisers of          *)
(* EthernetManager.h, the mutex and the event group created.               *)
(***************************************************************************)
InitInst ==
  [connectionState |-> UNINITIALIZED, previousState |-> UNINITIALIZED,
   phyStarted |-> FALSE, gotIpAtLeastOnce |-> FALSE,
   eventHandlersRegistered |-> FALSE,
   ethEventGroup |-> TRUE, bitConnected |-> FALSE,
   hasCustomMac |-> FALSE, customMacAddress |-> 0,
   lastError |-> "OK", stats |-> NoStats,
   connectionStartTime |-> 0,
   connectedCallback |-> FALSE, disconnectedCallback |-> FALSE,
   stateChangeCallback |-> FALSE, linkStatusCallback |-> FALSE,
   autoReconnectEnabled |-> FALSE, reconnectMaxRetries |-> 0,
   reconnectAttempts |-> 0, reconnectInitialDelay |-> 1000,
   reconnectMaxDelay |-> 30000, reconnectCurrentDelay |-> 1000,
   reconnectTimer |-> NoTimer,
   linkMonitoringEnabled |-> FALSE, linkMonitoringInterval |-> 1000,
   linkMonitorTimer |-> NoTimer, lastLinkStatus |-> FALSE,
   initStartTime |-> 0, linkUpTime |-> 0, ipObtainedTime |-> 0,
   inAttemptReconnect |-> FALSE,
   inUpdateLinkStatus |-> FALSE, currentLinkStatus |-> FALSE,
   locked |-> FALSE, log |-> NoLog, hist |-> NoHist]

\* pc: idle, blocked (inside xEventGroupWaitBits), done (returned; result
\* holds what the call returned), crashed.  kind: "wait" for a direct
\* waitForConnection, "init" for the wait of a blocking initialisation.
\* monitor: the link-monitor interval a configuration-object initialize
\* enables after a successful wait (0: none).  retAt and escaped observe the
\* return: the time of it, and whether it was the error-state escape.
NoWaiter ==
  [pc |-> "idle", kind |-> "none", startWait |-> 0, timeout |-> 0,
   wakeAt |-> 0, result |-> "none", monitor |-> 0, retAt |-> 0,
   escaped |-> FALSE]

\* The tasks that call initializeAsync step by step.
Tasks == {"t1", "t2"}

\* pc: idle, atGuard (the unguarded part of internalInit done, about to
\* take the mutex), inBegin (mutex held, ETH.begin called), done.  began:
\* the call has called ETH.begin.
\* beginOk: what its ETH.begin answers.  failed: the call has returned an
\* error outcome, of kind result.
NoCall ==
  [pc |-> "idle", result |-> "none", failed |-> FALSE, began |-> FALSE,
   beginOk |-> TRUE]

Init ==
  /\ inst = InitInst
  /\ eth = [started |-> FALSE, linkUp |-> FALSE]
  /\ now = StartMs
  /\ waiter = NoWaiter
  /\ mutexHolder = "none"
  /\ fresh = <<>>
  /\ initTask = [t \in Tasks |-> NoCall]

(***************************************************************************)
(* Start of a handler: a fresh observation record.                         *)
(***************************************************************************)
Enter(s, op) == [s EXCEPT !.log = [NoLog EXCEPT !.op = op], !.locked = FALSE]

Return(s, result) == [s EXCEPT !.log.result = result, !.locked = FALSE]

Lock(s) == [s EXCEPT !.locked = TRUE]

\* A guard that does not give the mutex back when its scope ends.
UnlockForgotten(s) == s

Unlock(s) == [s EXCEPT !.locked = FALSE]

Callback(s, name, old, new, val) ==
  [s EXCEPT !.log.cb =
     Append(@, [cb |-> name, old |-> old, new |-> new, val |-> val,
                locked |-> s.locked])]

(***************************************************************************)
(* isConnected(): phyStarted, the event group and BIT_CONNECTED.           *)
(***************************************************************************)
IsConnected(s) == s.phyStarted /\ s.ethEventGroup /\ s.bitConnected

(***************************************************************************)
(* changeState(newState).                                                  *)
(***************************************************************************)
\* A transition function that treats no request as a self-transition.
NeverSelfTransition(s, newState) == FALSE

SelfTransition(s, newState) == newState = s.connectionState

ChangeState(s, newState) ==
  IF SelfTransition(s, newState) THEN s
  ELSE
    LET old == s.connectionState
        s1 == [s EXCEPT !.previousState = old,
                        !.connectionState = newState,
                        !.log.trans = Append(@, <<old, newState>>),
                        !.hist.ipSinceDown =
                           IF newState \in {LINK_DOWN, ERROR_STATE}
                           THEN FALSE ELSE @]
        s2 == IF s1.stateChangeCallback
              THEN Callback(s1, "stateChange", old, newState, 0)
              ELSE s1
    IN CASE newState = PHY_STARTING -> [s2 EXCEPT !.initStartTime = now]
         [] newState = LINK_UP -> [s2 EXCEPT !.linkUpTime = now]
         [] newState = CONNECTED -> [s2 EXCEPT !.ipObtainedTime = now]
         [] OTHER -> s2

(***************************************************************************)
(* updateLinkStatus(): linkNow is what ETH.linkUp() reads.                 *)
(***************************************************************************)
\* A poll that takes every reading for a change.
LinkNeverUnchanged(s, linkNow) == FALSE

LinkUnchanged(s, linkNow) == linkNow = s.lastLinkStatus

UpdateLinkStatus(s, linkNow) ==
  IF ~s.phyStarted THEN s
  ELSE IF LinkUnchanged(s, linkNow) THEN s
  ELSE
    LET s1 == [s EXCEPT !.lastLinkStatus = linkNow]
        s2 == IF ~linkNow
              THEN [ChangeState(s1, LINK_DOWN) EXCEPT
                      !.stats.linkDownEvents = @ + 1]
              ELSE IF IsConnected(s1)
                   THEN ChangeState(s1, CONNECTED)
                   ELSE ChangeState(s1, LINK_UP)
    IN IF s2.linkStatusCallback
       THEN Callback(s2, "linkStatus", "-", "-", IF linkNow THEN 1 ELSE 0)
       ELSE s2

(***************************************************************************)
(* updateLinkStatus() as a second task runs it, in the two parts another   *)
(* task can come between: the reading of ETH.linkUp() with the comparison, *)
(* and the body of the if.  inUpdateLinkStatus: the task has found a       *)
(* changed reading, currentLinkStatus, and has not yet run the body.       *)
(***************************************************************************)
UpdateLinkStatusReads(s, linkNow) ==
  IF ~s.phyStarted THEN s
  ELSE IF LinkUnchanged(s, linkNow) THEN s
  ELSE [s EXCEPT !.inUpdateLinkStatus = TRUE, !.currentLinkStatus = linkNow]

UpdateLinkStatusApplies(s) ==
  LET s1 == [s EXCEPT !.lastLinkStatus = s.currentLinkStatus,
                      !.inUpdateLinkStatus = FALSE]
      s2 == IF ~s.currentLinkStatus
            THEN [ChangeState(s1, LINK_DOWN) EXCEPT
                    !.stats.linkDownEvents = @ + 1]
            ELSE IF IsConnected(s1)
                 THEN ChangeState(s1, CONNECTED)
                 ELSE ChangeState(s1, LINK_UP)
  IN IF s2.linkStatusCallback
     THEN Callback(s2, "linkStatus", "-", "-",
                   IF s.currentLinkStatus THEN 1 ELSE 0)
     ELSE s2

(***************************************************************************)
(* FreeRTOS software timers: xTimerStart / xTimerStop / xTimerChangePeriod *)
(* on a handle that may be null.  xTimerChangePeriod also starts a dormant *)
(* timer.                                                                  *)
(***************************************************************************)
TimerCreate(period) == [created |-> TRUE, active |-> FALSE, period |-> period]

TimerStart(t) == IF t.created THEN [t EXCEPT !.active = TRUE] ELSE t

TimerStop(t) == IF t.created THEN [t EXCEPT !.active = FALSE] ELSE t

TimerChangePeriod(t, period) ==
  IF t.created THEN [t EXCEPT !.period = period, !.active = TRUE] ELSE t

(***************************************************************************)
(* onEthEvent: the event bridge.  ev is the (base, id) pair:               *)
(*   GOT_IP            IP_EVENT / IP_EVENT_GOT_IP                          *)
(*   ETH_START, ETH_CONNECTED, ETH_DISCONNECTED, ETH_STOP  ETH_EVENT ids   *)
(*   ETH_OTHER         any other ETH_EVENT id                              *)
(*   IP_OTHER          any other IP_EVENT id                               *)
(***************************************************************************)
EventKinds ==
  {"GOT_IP", "ETH_START", "ETH_CONNECTED", "ETH_DISCONNECTED", "ETH_STOP",
   "ETH_OTHER", "IP_OTHER"}

\* An address event that counts as a reconnection whatever came before.
AlwaysHadDisconnect(s) == TRUE

HadDisconnect(s) == s.stats.disconnectCount > 0

OnGotIp(s) ==
  LET s1 == [s EXCEPT !.gotIpAtLeastOnce = TRUE,
                      !.stats.connectTime = now,
                      !.stats.reconnectCount =
                         IF HadDisconnect(s) THEN @ + 1 ELSE @,
                      !.reconnectAttempts = 0,
                      !.reconnectCurrentDelay = s.reconnectInitialDelay,
                      !.hist.ipSinceDown = TRUE]
      s2 == [ChangeState(s1, CONNECTED) EXCEPT !.bitConnected = TRUE]
  IN IF s2.connectedCallback
     THEN Callback(s2, "connected", "-", "-", 0)
     ELSE s2

OnLinkEstablished(s, linkNow) ==
  UpdateLinkStatus(
    ChangeState([s EXCEPT !.connectionStartTime = now], OBTAINING_IP),
    linkNow)

\* A trust window that still covers the instant it ends at.
TrustWindowInclusive(s) ==
  Sub32(now, s.connectionStartTime) <= ETH_CONNECTION_TRUST_WINDOW_MS

TrustWindowOpen(s) ==
  Sub32(now, s.connectionStartTime) < ETH_CONNECTION_TRUST_WINDOW_MS

\* A startup-noise filter that lets every event through.
NoStartupFilter(s) == FALSE

StartupNoise(s) == ~s.gotIpAtLeastOnce

OnLinkLost(s) ==
  IF StartupNoise(s) THEN s
  ELSE IF TrustWindowOpen(s) THEN s
  ELSE
    LET s1 == [s EXCEPT !.gotIpAtLeastOnce = FALSE, !.bitConnected = FALSE]
        s2 == [ChangeState(s1, LINK_DOWN) EXCEPT
                 !.stats.disconnectCount = @ + 1,
                 !.stats.linkDownEvents = @ + 1]
        s3 == IF s2.disconnectedCallback
              THEN Callback(s2, "disconnected", "-", "-",
                            Sub32(now, s2.stats.connectTime))
              ELSE s2
    IN IF s3.autoReconnectEnabled /\ s3.reconnectTimer.created
       THEN [s3 EXCEPT !.reconnectTimer = TimerStart(@)]
       ELSE s3

OnEthEvent(s, ev, linkNow) ==
  IF ~s.ethEventGroup THEN s
  ELSE CASE ev = "GOT_IP" -> OnGotIp(s)
         [] ev = "ETH_CONNECTED" -> OnLinkEstablished(s, linkNow)
         [] ev \in {"ETH_DISCONNECTED", "ETH_STOP"} -> OnLinkLost(s)
         [] OTHER -> s

(***************************************************************************)
(* attemptReconnect: the reconnect timer's callback.  lockOk is whether    *)
(* the two MutexGuards get the mutex.                                      *)
(***************************************************************************)
\* A retry limit that is already exceeded by the attempt that reaches it.
RetriesReached(s) ==
  s.reconnectMaxRetries > 0 /\ s.reconnectAttempts >= s.reconnectMaxRetries

RetriesExceeded(s) ==
  s.reconnectMaxRetries > 0 /\ s.reconnectAttempts > s.reconnectMaxRetries

AttemptReconnect(s, lockOk) ==
  IF ~lockOk THEN s
  ELSE
    LET s1 == [s EXCEPT !.reconnectAttempts = (@ + 1) % UINT8_MOD,
                        !.log.result = "attempt"]
    IN IF RetriesExceeded(s1)
       THEN [s1 EXCEPT !.autoReconnectEnabled = FALSE]
       ELSE
         LET d == Min(Twice32(s1.reconnectCurrentDelay),
                      s1.reconnectMaxDelay)
         IN [s1 EXCEPT !.reconnectCurrentDelay = d,
                       !.reconnectTimer = TimerChangePeriod(@, d)]

(***************************************************************************)
(* attemptReconnect in the two guarded sections another task can come      *)
(* between.  inAttemptReconnect: the callback has left its first section   *)
(* and has not yet finished its second.                                    *)
(***************************************************************************)
AttemptReconnectCount(s, lockOk) ==
  IF ~lockOk THEN [s EXCEPT !.inAttemptReconnect = TRUE]
  ELSE
    LET s1 == [s EXCEPT !.reconnectAttempts = (@ + 1) % UINT8_MOD,
                        !.log.result = "attempt"]
    IN IF RetriesExceeded(s1)
       THEN [s1 EXCEPT !.autoReconnectEnabled = FALSE]
       ELSE [s1 EXCEPT !.inAttemptReconnect = TRUE]

AttemptReconnectSchedule(s, lockOk) ==
  IF ~lockOk THEN [s EXCEPT !.inAttemptReconnect = FALSE]
  ELSE
    LET d == Min(Twice32(s.reconnectCurrentDelay), s.reconnectMaxDelay)
    IN [s EXCEPT !.reconnectCurrentDelay = d,
                 !.reconnectTimer = TimerChangePeriod(@, d),
                 !.inAttemptReconnect = FALSE]

(***************************************************************************)
(* setAutoReconnect, setLinkMonitoring, the callback setters,              *)
(* setMacAddress, resetStatistics: guarded sections that do nothing when   *)
(* the mutex is not obtained.                                              *)
(***************************************************************************)
SetAutoReconnect(s, lockOk, enable, maxRetries, initialDelayMs, maxDelayMs) ==
  IF ~lockOk THEN s
  ELSE [s EXCEPT !.autoReconnectEnabled = enable,
                 !.reconnectMaxRetries = maxRetries,
                 !.reconnectInitialDelay = initialDelayMs,
                 !.reconnectMaxDelay = maxDelayMs,
                 !.reconnectAttempts = 0,
                 !.reconnectCurrentDelay = initialDelayMs,
                 !.reconnectTimer =
                    IF enable /\ ~s.reconnectTimer.created
                    THEN TimerCreate(initialDelayMs) ELSE @]

SetLinkMonitoring(s, lockOk, enable, intervalMs) ==
  IF ~lockOk THEN s
  ELSE
    LET s1 == [s EXCEPT !.linkMonitoringEnabled = enable,
                        !.linkMonitoringInterval = intervalMs]
    IN IF enable
       THEN [s1 EXCEPT !.linkMonitorTimer =
               TimerChangePeriod(
                 IF @.created THEN @ ELSE TimerCreate(intervalMs), intervalMs)]
       ELSE [s1 EXCEPT !.linkMonitorTimer = TimerStop(@)]

SetMacAddress(s, lockOk, mac) ==
  IF mac = 0 \/ ~lockOk THEN s
  ELSE [s EXCEPT !.customMacAddress = mac, !.hasCustomMac = TRUE]

\* A reset that leaves the disconnect counter alone.
ResetStatisticsKeeping(s, lockOk) ==
  IF ~lockOk THEN s
  ELSE [s EXCEPT !.stats = [NoStats EXCEPT !.disconnectCount =
                                             s.stats.disconnectCount]]

ResetStatistics(s, lockOk) ==
  IF ~lockOk THEN s ELSE [s EXCEPT !.stats = NoStats]

(***************************************************************************)
(* getQuickStatus(ip, linkSpeed, fullDuplex): log.result "TRUE" when it    *)
(* returns true, with the three outputs assigned from the driver, "FALSE"  *)
(* when it returns false, with none of them assigned.                      *)
(***************************************************************************)
GetQuickStatus(s) ==
  IF ~IsConnected(s) THEN [s EXCEPT !.log.result = "FALSE"]
  ELSE [s EXCEPT !.log.result = "TRUE"]

(***************************************************************************)
(* Parameters of an initialisation call.  hostname is the string's length, *)
(* NullHostname for a null pointer.                                        *)
(***************************************************************************)
NullHostname == -1

\* A hostname check that only looks for the null pointer.
HostnameNull(hostname) == hostname = NullHostname

\* !hostname || strlen(hostname) == 0: a hostname is its length, or
\* NullHostname for the null pointer.
HostnameMissing(hostname) == hostname = NullHostname \/ hostname = 0

ValidPin(pin) == ~(pin < -1 \/ pin >= GPIO_NUM_MAX)

(***************************************************************************)
(* earlyInit(): regOk is whether the event handlers can be registered.     *)
(* The result is the instance with log.result = "OK" or "FAIL".            *)
(***************************************************************************)
EarlyInit(s, lockOk, regOk) ==
  IF ~lockOk THEN [s EXCEPT !.log.result = "FAIL"]
  ELSE
    LET s1 == IF s.ethEventGroup THEN s
              ELSE [s EXCEPT !.ethEventGroup = TRUE, !.bitConnected = FALSE]
    IN IF s1.eventHandlersRegistered THEN [s1 EXCEPT !.log.result = "OK"]
       ELSE IF ~regOk
            THEN [s1 EXCEPT !.ethEventGroup = FALSE, !.bitConnected = FALSE,
                            !.log.result = "FAIL"]
            ELSE [s1 EXCEPT !.eventHandlersRegistered = TRUE,
                            !.log.result = "OK"]

(***************************************************************************)
(* internalInit up to the point where it returns or starts to wait.        *)
(* log.result: "OK" (returned true), "FAIL" (returned false) or "WAIT"     *)
(* (bring-up done, mutex released, about to call waitForConnection).       *)
(***************************************************************************)
InternalInit(s, p, customMac, waitForConn, lockOk, regOk, beginOk) ==
  IF s.phyStarted /\ s.connectionState # UNINITIALIZED
  THEN [s EXCEPT !.lastError = "ALREADY_INITIALIZED", !.log.result = "FAIL"]
  ELSE IF HostnameMissing(p.hostname)
  THEN [ChangeState([s EXCEPT !.lastError = "INVALID_PARAMETER"], ERROR_STATE)
          EXCEPT !.log.result = "FAIL"]
  ELSE IF p.hostname > ETH_MAX_HOSTNAME_LENGTH
  THEN [ChangeState([s EXCEPT !.lastError = "INVALID_PARAMETER"], ERROR_STATE)
          EXCEPT !.log.result = "FAIL"]
  ELSE IF p.phy_addr < 0 \/ p.phy_addr > ETH_MAX_PHY_ADDRESS
  THEN [s EXCEPT !.log.result = "FAIL"]
  ELSE IF ~ValidPin(p.mdc_pin) \/ ~ValidPin(p.mdio_pin)
          \/ ~ValidPin(p.power_pin)
  THEN [s EXCEPT !.log.result = "FAIL"]
  ELSE
    LET e == IF ~s.ethEventGroup \/ ~s.eventHandlersRegistered
             THEN EarlyInit(s, lockOk, regOk)
             ELSE [s EXCEPT !.log.result = "OK"]
    IN IF e.log.result = "FAIL" THEN e
       ELSE IF ~lockOk THEN [e EXCEPT !.log.result = "FAIL"]
       ELSE
         LET s1 == [Lock(e) EXCEPT !.bitConnected = FALSE]
             s2 == IF customMac # 0
                   THEN [s1 EXCEPT !.customMacAddress = customMac,
                                   !.hasCustomMac = TRUE]
                   ELSE s1
             s3 == [ChangeState(s2, PHY_STARTING) EXCEPT !.log.begin = TRUE]
         IN IF ~beginOk
            THEN Unlock([ChangeState(
                           [s3 EXCEPT !.lastError = "PHY_START_FAILED"],
                           ERROR_STATE)
                         EXCEPT !.log.result = "FAIL"])
            ELSE Unlock([s3 EXCEPT !.phyStarted = TRUE,
                                   !.log.result =
                                      IF waitForConn THEN "WAIT" ELSE "OK"])

(***************************************************************************)
(* internalInit in the three parts another task can come between:          *)
(*   InitUnguarded      the checks and earlyInit, before the MutexGuard;   *)
(*                      log.result "FAIL" (returned false) or "OK" (goes   *)
(*                      on to the guard);                                  *)
(*   InitGuardedBegin   the guarded section up to the call of ETH.begin;   *)
(*   InitGuardedEnd     the guarded section from the answer of ETH.begin.  *)
(***************************************************************************)
InitUnguarded(s, p, lockOk, regOk) ==
  IF s.phyStarted /\ s.connectionState # UNINITIALIZED
  THEN [s EXCEPT !.lastError = "ALREADY_INITIALIZED", !.log.result = "FAIL"]
  ELSE IF HostnameMissing(p.hostname)
          \/ p.hostname > ETH_MAX_HOSTNAME_LENGTH
  THEN [ChangeState([s EXCEPT !.lastError = "INVALID_PARAMETER"], ERROR_STATE)
          EXCEPT !.log.result = "FAIL"]
  ELSE IF p.phy_addr < 0 \/ p.phy_addr > ETH_MAX_PHY_ADDRESS
  THEN [s EXCEPT !.log.result = "FAIL"]
  ELSE IF ~ValidPin(p.mdc_pin) \/ ~ValidPin(p.mdio_pin)
          \/ ~ValidPin(p.power_pin)
  THEN [s EXCEPT !.log.result = "FAIL"]
  ELSE IF ~s.ethEventGroup \/ ~s.eventHandlersRegistered
  THEN EarlyInit(s, lockOk, regOk)
  ELSE [s EXCEPT !.log.result = "OK"]

InitGuardedBegin(s, customMac) ==
  LET s1 == [Lock(s) EXCEPT !.bitConnected = FALSE]
      s2 == IF customMac # 0
            THEN [s1 EXCEPT !.customMacAddress = customMac,
                            !.hasCustomMac = TRUE]
            ELSE s1
  IN [ChangeState(s2, PHY_STARTING) EXCEPT !.log.begin = TRUE]

InitGuardedEnd(s, beginOk, waitForConn) ==
  IF ~beginOk
  THEN Unlock([ChangeState([Lock(s) EXCEPT !.lastError = "PHY_START_FAILED"],
                           ERROR_STATE)
               EXCEPT !.log.result = "FAIL"])
  ELSE Unlock([s EXCEPT !.phyStarted = TRUE,
                        !.log.result = IF waitForConn THEN "WAIT" ELSE "OK"])

(***************************************************************************)
(* internalInitStatic up to the point where it returns false or starts to  *)
(* wait.  ip, gateway and subnet are TRUE for a non-zero address; configOk *)
(* is the result of ETH.config.                                            *)
(***************************************************************************)
InternalInitStatic(s, p, ip, gateway, subnet, lockOk, regOk, beginOk, configOk) ==
  IF HostnameMissing(p.hostname)
  THEN [s EXCEPT !.log.result = "FAIL"]
  ELSE IF ~ip \/ ~gateway \/ ~subnet
  THEN [s EXCEPT !.log.result = "FAIL"]
  ELSE IF p.phy_addr < 0 \/ p.phy_addr > ETH_MAX_PHY_ADDRESS
  THEN [s EXCEPT !.log.result = "FAIL"]
  ELSE IF ~ValidPin(p.mdc_pin) \/ ~ValidPin(p.mdio_pin)
          \/ ~ValidPin(p.power_pin)
  THEN [s EXCEPT !.log.result = "FAIL"]
  ELSE
    LET e == IF ~s.ethEventGroup \/ ~s.eventHandlersRegistered
             THEN EarlyInit(s, lockOk, regOk)
             ELSE [s EXCEPT !.log.result = "OK"]
    IN IF e.log.result = "FAIL" THEN e
       ELSE IF ~lockOk THEN [e EXCEPT !.log.result = "FAIL"]
       ELSE
         LET s1 == [Lock(e) EXCEPT !.bitConnected = FALSE,
                                   !.log.begin = TRUE]
         IN IF ~beginOk \/ ~configOk
            THEN Unlock([s1 EXCEPT !.log.result = "FAIL"])
            ELSE Unlock([s1 EXCEPT !.phyStarted = TRUE,
                                   !.log.result = "WAIT"])

(***************************************************************************)
(* cleanup().                                                              *)
(***************************************************************************)
Cleanup(s, lockOk) ==
  IF ~lockOk THEN s
  ELSE [s EXCEPT !.eventHandlersRegistered = FALSE,
                 !.phyStarted = FALSE,
                 !.gotIpAtLeastOnce = FALSE,
                 !.hasCustomMac = FALSE,
                 !.connectionStartTime = 0,
                 !.ethEventGroup = FALSE, !.bitConnected = FALSE,
                 !.reconnectTimer = NoTimer,
                 !.linkMonitorTimer = NoTimer,
                 !.connectedCallback = FALSE,
                 !.disconnectedCallback = FALSE,
                 !.stateChangeCallback = FALSE,
                 !.linkStatusCallback = FALSE,
                 !.connectionState = UNINITIALIZED,
                 !.previousState = UNINITIALIZED,
                 !.stats = NoStats,
                 !.lastError = "OK"]

(***************************************************************************)
(* disconnect().                                                           *)
(***************************************************************************)
Disconnect(s, lockOk) ==
  IF ~lockOk THEN s
  ELSE IF s.connectionState = UNINITIALIZED THEN s
  ELSE
    LET counted == s.connectionState = CONNECTED /\ s.connectionStartTime > 0
        connectedDuration ==
          IF counted THEN Sub32(now, s.connectionStartTime) ELSE 0
        s1 == IF counted
              THEN [Lock(s) EXCEPT !.stats.disconnectCount = @ + 1]
              ELSE Lock(s)
        s2 == ChangeState(s1, DISCONNECTING)
        s3 == IF s2.autoReconnectEnabled
              THEN [s2 EXCEPT !.autoReconnectEnabled = FALSE,
                              !.reconnectTimer = TimerStop(@)]
              ELSE s2
        s4 == [s3 EXCEPT !.linkMonitorTimer = TimerStop(@),
                         !.phyStarted = FALSE,
                         !.gotIpAtLeastOnce = FALSE,
                         !.connectionStartTime = 0]
        s5 == Unlock(ChangeState(s4, UNINITIALIZED))
    IN IF s5.disconnectedCallback /\ connectedDuration > 0
       THEN Callback(s5, "disconnected", "-", "-", connectedDuration)
       ELSE s5

(***************************************************************************)
(* resetInterface(): log.result "OK" for true, "FAIL" for false.           *)
(***************************************************************************)
ResetInterface(s, lockOk) ==
  IF ~s.phyStarted THEN [s EXCEPT !.log.result = "FAIL"]
  ELSE IF ~lockOk THEN [s EXCEPT !.log.result = "FAIL"]
  ELSE
    LET s1 == [Lock(s) EXCEPT !.bitConnected = FALSE,
                              !.gotIpAtLeastOnce = FALSE]
        s2 == ChangeState(s1, LINK_DOWN)
        s3 == IF s2.autoReconnectEnabled /\ s2.reconnectTimer.created
              THEN [s2 EXCEPT !.reconnectAttempts = 0,
                              !.reconnectCurrentDelay =
                                 s2.reconnectInitialDelay,
                              !.reconnectTimer = TimerStart(@)]
              ELSE s2
    IN Unlock([s3 EXCEPT !.log.result = "OK"])

(***************************************************************************)
(* waitForConnection(timeout_ms), first part: the checks before the loop   *)
(* and the first xEventGroupWaitBits.  WaitEntryError is the error the     *)
(* call returns at once ("OK" for the already-connected fast path, "none"  *)
(* when it goes on to wait).                                               *)
(***************************************************************************)
WaitEntryResult(s, timeout) ==
  IF timeout = 0 THEN "INVALID_PARAMETER"
  ELSE IF IsConnected(s) THEN "OK"
  ELSE IF ~s.ethEventGroup THEN "NOT_INITIALIZED"
  ELSE IF ~s.phyStarted THEN "NOT_INITIALIZED"
  ELSE "none"

WaitEntryInst(s, timeout) ==
  LET r == WaitEntryResult(s, timeout)
  IN IF r \in {"OK", "none"} THEN s ELSE [s EXCEPT !.lastError = r]

WaitEntryWaiter(s, timeout, kind, monitor) ==
  LET r == WaitEntryResult(s, timeout)
  IN IF r = "none"
     THEN [NoWaiter EXCEPT !.pc = "blocked", !.kind = kind,
                           !.startWait = now, !.timeout = timeout,
                           !.wakeAt = now + Min(timeout, ETH_WAIT_CHUNK_MS),
                           !.monitor = monitor]
     ELSE [NoWaiter EXCEPT !.pc = "done", !.kind = kind,
                           !.startWait = now, !.timeout = timeout,
                           !.result = r, !.monitor = monitor, !.retAt = now]

(***************************************************************************)
(* What a finished wait makes the blocking initialisation do: a            *)
(* configuration-object initialize enables link monitoring on success.     *)
(***************************************************************************)
AfterWait(s, w, lockOk) ==
  IF w.kind = "init" /\ w.result = "OK" /\ w.monitor > 0
  THEN SetLinkMonitoring(s, lockOk, TRUE, w.monitor)
  ELSE s

(***************************************************************************)
(* The end of one wait slice without the bit: the error-state escape, the  *)
(* link poll, then the loop condition.  The result is what the call does   *)
(* next: "ESCAPE" and "TIMEOUT" return ConnectionTimeout, "AGAIN" waits    *)
(* one more slice, "CRASH" is xEventGroupWaitBits on the null handle that  *)
(* cleanup() left behind.                                                  *)
(***************************************************************************)
\* A wait that gives up at the end of its first slice.
SliceOutcomeSingle(s, w) ==
  IF s.connectionState = ERROR_STATE THEN "ESCAPE" ELSE "TIMEOUT"

SliceOutcome(s, w) ==
  IF s.connectionState = ERROR_STATE THEN "ESCAPE"
  ELSE IF Sub32(now, w.startWait) < w.timeout
       THEN IF s.ethEventGroup THEN "AGAIN" ELSE "CRASH"
       ELSE "TIMEOUT"

\* A wait that stops the manager when it gives up.
SliceInstStopping(s, w, linkNow) ==
  [s EXCEPT !.phyStarted = FALSE, !.lastError = "CONNECTION_TIMEOUT"]

SliceInst(s, w, linkNow) ==
  IF s.connectionState = ERROR_STATE
  THEN [s EXCEPT !.lastError = "CONNECTION_TIMEOUT"]
  ELSE
    LET s1 == IF s.linkMonitoringEnabled
              THEN UpdateLinkStatus(s, linkNow) ELSE s
    IN IF Sub32(now, w.startWait) < w.timeout THEN s1
       ELSE [s1 EXCEPT !.lastError = "CONNECTION_TIMEOUT"]

SliceWaiter(s, w) ==
  LET o == SliceOutcome(s, w)
      remainingTime == w.timeout - Sub32(now, w.startWait)
  IN CASE o = "AGAIN" ->
            [w EXCEPT !.wakeAt = now + Min(remainingTime, ETH_WAIT_CHUNK_MS)]
       [] o = "CRASH" -> [w EXCEPT !.pc = "crashed"]
       [] OTHER ->
            [w EXCEPT !.pc = "done", !.result = "CONNECTION_TIMEOUT",
                      !.retAt = now, !.escaped = (o = "ESCAPE")]

(***************************************************************************)
(* Inputs.                                                                 *)
(***************************************************************************)
GoodParams ==
  [hostname |-> 8, phy_addr |-> 0, mdc_pin |-> 23, mdio_pin |-> 18,
   power_pin |-> -1]

\* One valid parameter set and one per validation that can reject it.
ParamCases ==
  {GoodParams,
   [GoodParams EXCEPT !.hostname = NullHostname],
   [GoodParams EXCEPT !.hostname = 0],
   [GoodParams EXCEPT !.hostname = 64],
   [GoodParams EXCEPT !.phy_addr = 32],
   [GoodParams EXCEPT !.mdc_pin = 40]}

RetryLimits == {0, 2}

InitialDelays == {1000}

MaxDelays == {3000}

WaitTimeouts == {0, 100, 250}

\* An EthernetConfig: custom_mac (0: none), auto-reconnect, static address,
\* link monitoring.
BaseConfig ==
  [hostname |-> 8, phy_addr |-> 0, mdc_pin |-> 23, mdio_pin |-> 18,
   power_pin |-> -1, custom_mac |-> 0, use_static_ip |-> FALSE,
   enable_auto_reconnect |-> FALSE, reconnect_max_retries |-> 2,
   reconnect_initial_delay |-> 2000, reconnect_max_delay |-> 3000,
   enable_link_monitoring |-> FALSE, link_monitor_interval |-> 1000]

ConfigCases ==
  {BaseConfig,
   [BaseConfig EXCEPT !.hostname = NullHostname],
   [BaseConfig EXCEPT !.custom_mac = 2],
   [BaseConfig EXCEPT !.enable_auto_reconnect = TRUE],
   [BaseConfig EXCEPT !.use_static_ip = TRUE]}

\* beginOk and configOk are what ETH.begin() and ETH.config() answer.
\* What the platform can answer: handler registration is only attempted
\* while the handlers are not registered.
RegResults == IF inst.eventHandlersRegistered THEN {TRUE} ELSE BOOLEAN

LockOk == mutexHolder = "none"

\* The counters stay within the model's bound.
Bounded(s) ==
  /\ s.stats.disconnectCount <= MaxCount
  /\ s.stats.reconnectCount <= MaxCount
  /\ s.stats.linkDownEvents <= MaxCount
  /\ s.reconnectAttempts <= MaxFires

WaiterFree == waiter.pc \in {"idle", "done"}

\* The result a public initialisation wrapper returns for internalInit's
\* bool: ok, or the last error.
Wrap(s) ==
  IF s.log.result = "FAIL"
  THEN [s EXCEPT !.log.result = s.lastError, !.log.failed = TRUE]
  ELSE s

BeginEffect(s, beginOk) ==
  IF s.log.begin /\ beginOk THEN [eth EXCEPT !.started = TRUE] ELSE eth

(***************************************************************************)
(* Environment: time, the physical link, another task in a guarded section *)
(***************************************************************************)
Tick(step, max) ==
  /\ now + step <= max
  /\ now' = now + step
  /\ UNCHANGED <<inst, eth, waiter, mutexHolder, fresh, initTask>>

LinkChange ==
  /\ eth.started
  /\ eth' = [eth EXCEPT !.linkUp = ~@]
  /\ UNCHANGED <<inst, now, waiter, mutexHolder, fresh, initTask>>

OtherTaskLocks ==
  /\ mutexHolder = "none"
  /\ mutexHolder' = "other"
  /\ UNCHANGED <<inst, eth, now, waiter, fresh, initTask>>

OtherTaskUnlocks ==
  /\ mutexHolder = "other"
  /\ mutexHolder' = "none"
  /\ UNCHANGED <<inst, eth, now, waiter, fresh, initTask>>

(***************************************************************************)
(* The substrate delivers an event to the registered handler.              *)
(***************************************************************************)
EthEvent(ev) ==
  /\ eth.started
  /\ inst.eventHandlersRegistered
  /\ inst' = OnEthEvent(Enter(inst, ev), ev, eth.linkUp)
  /\ Bounded(inst')
  /\ UNCHANGED <<eth, now, waiter, mutexHolder, fresh, initTask>>

(***************************************************************************)
(* The public initialisation calls.                                        *)
(***************************************************************************)
InitializeAsync(p, customMac, beginOk) ==
  \E regOk \in RegResults :
    /\ inst' = Wrap(InternalInit(Enter(inst, "initializeAsync"), p, customMac,
                                 FALSE, LockOk, regOk, beginOk))
    /\ eth' = BeginEffect(inst', beginOk)
    /\ UNCHANGED <<now, waiter, mutexHolder, fresh, initTask>>

Initialize(p, beginOk) ==
  \E regOk \in RegResults :
    LET s == InternalInit(Enter(inst, "initialize"), p,
                          IF inst.hasCustomMac THEN inst.customMacAddress
                          ELSE 0,
                          TRUE, LockOk, regOk, beginOk)
    IN /\ WaiterFree
       /\ IF s.log.result = "WAIT"
          THEN /\ inst' = WaitEntryInst(s, ETH_INIT_TIMEOUT_MS)
               /\ waiter' = WaitEntryWaiter(s, ETH_INIT_TIMEOUT_MS, "init", 0)
          ELSE /\ inst' = Wrap(s)
               /\ UNCHANGED waiter
       /\ eth' = BeginEffect(s, beginOk)
       /\ UNCHANGED <<now, mutexHolder, fresh, initTask>>

InitializeStatic(p, ip, gateway, subnet, beginOk, configOk) ==
  \E regOk \in RegResults :
    LET s == InternalInitStatic(Enter(inst, "initializeStatic"), p, ip,
                                gateway, subnet, LockOk, regOk, beginOk,
                                configOk)
    IN /\ WaiterFree
       /\ IF s.log.result = "WAIT"
          THEN /\ inst' = WaitEntryInst(s, ETH_INIT_TIMEOUT_MS)
               /\ waiter' = WaitEntryWaiter(s, ETH_INIT_TIMEOUT_MS, "init", 0)
          ELSE /\ inst' = Wrap(s)
               /\ UNCHANGED waiter
       /\ eth' = BeginEffect(s, beginOk)
       /\ UNCHANGED <<now, mutexHolder, fresh, initTask>>

\* The part of both configuration-object forms before the initialisation
\* proper: setMacAddress and setAutoReconnect.
ApplyConfig(s, c, lockOk) ==
  LET s1 == SetMacAddress(s, lockOk, c.custom_mac)
  IN IF c.enable_auto_reconnect
     THEN SetAutoReconnect(s1, lockOk, TRUE, c.reconnect_max_retries,
                           c.reconnect_initial_delay, c.reconnect_max_delay)
     ELSE s1

ConfigParams(c) ==
  [hostname |-> c.hostname, phy_addr |-> c.phy_addr, mdc_pin |-> c.mdc_pin,
   mdio_pin |-> c.mdio_pin, power_pin |-> c.power_pin]

\* initialize(config) and initializeAsync(config): async is TRUE for the
\* second.  A static address makes both of them wait.
InitializeConfig(c, async, beginOk, configOk) ==
  \E regOk \in RegResults :
    LET s0 == ApplyConfig(
                Enter(inst, IF async THEN "initializeAsyncConfig"
                            ELSE "initializeConfig"),
                c, LockOk)
        s == IF c.use_static_ip
             THEN InternalInitStatic(s0, ConfigParams(c), TRUE, TRUE, TRUE,
                                     LockOk, regOk, beginOk, configOk)
             ELSE InternalInit(s0, ConfigParams(c), c.custom_mac, ~async,
                               LockOk, regOk, beginOk)
        monitor == IF c.enable_link_monitoring
                   THEN c.link_monitor_interval ELSE 0
    IN /\ WaiterFree
       /\ IF s.log.result = "WAIT"
          THEN /\ inst' = WaitEntryInst(s, ETH_INIT_TIMEOUT_MS)
               /\ waiter' = WaitEntryWaiter(s, ETH_INIT_TIMEOUT_MS, "init",
                                            monitor)
          ELSE /\ inst' =
                    IF s.log.result = "OK" /\ monitor > 0
                    THEN SetLinkMonitoring(s, LockOk, TRUE, monitor)
                    ELSE Wrap(s)
               /\ UNCHANGED waiter
       /\ eth' = BeginEffect(s, beginOk)
       /\ UNCHANGED <<now, mutexHolder, fresh, initTask>>

(***************************************************************************)
(* initializeAsync(hostname, ...) called by task t, step by step: other    *)
(* tasks and the event loop run between the steps.                         *)
(***************************************************************************)
InitCallEnters(t, p) ==
  \E regOk \in RegResults :
    LET s == InitUnguarded(Enter(inst, "initializeAsync"), p, LockOk, regOk)
    IN /\ initTask[t].pc = "idle"
       /\ inst' = IF s.log.result = "FAIL" THEN Wrap(s)
                  ELSE [s EXCEPT !.log.result = "none"]
       /\ initTask' =
            [initTask EXCEPT ![t] =
               IF s.log.result = "FAIL"
               THEN [@ EXCEPT !.pc = "done", !.result = s.lastError,
                              !.failed = TRUE]
               ELSE [@ EXCEPT !.pc = "atGuard"]]
       /\ UNCHANGED <<eth, now, waiter, mutexHolder, fresh>>

\* The MutexGuard of internalInit gets the mutex; the section runs up to
\* ETH.begin, which starts the driver when it is going to succeed.
InitCallLocks(t, beginOk) ==
  /\ initTask[t].pc = "atGuard"
  /\ mutexHolder = "none"
  /\ inst' = InitGuardedBegin(Enter(inst, "initializeAsync"), 0)
  /\ mutexHolder' = t
  /\ eth' = BeginEffect(inst', beginOk)
  /\ initTask' = [initTask EXCEPT ![t] = [@ EXCEPT !.pc = "inBegin",
                                                  !.began = TRUE,
                                                  !.beginOk = beginOk]]
  /\ UNCHANGED <<now, waiter, fresh>>

\* The MutexGuard of internalInit times out: the mutex is held by another
\* task for all of ETH_MUTEX_INIT_TIMEOUT_MS.
InitCallLockTimeout(t) ==
  /\ initTask[t].pc = "atGuard"
  /\ mutexHolder # "none"
  /\ inst' = Wrap([Enter(inst, "initializeAsync") EXCEPT
                     !.log.result = "FAIL"])
  /\ initTask' = [initTask EXCEPT ![t] = [@ EXCEPT !.pc = "done",
                                                  !.result = inst.lastError,
                                                  !.failed = TRUE]]
  /\ UNCHANGED <<eth, now, waiter, mutexHolder, fresh>>

\* ETH.begin has answered: the rest of the guarded section, and the return.
InitCallReturns(t) ==
  /\ initTask[t].pc = "inBegin"
  /\ inst' = Wrap(InitGuardedEnd(Lock(Enter(inst, "initializeAsync")),
                                 initTask[t].beginOk, FALSE))
  /\ mutexHolder' = "none"
  /\ initTask' = [initTask EXCEPT ![t] = [@ EXCEPT !.pc = "done",
                                                  !.result = inst'.log.result,
                                                  !.failed = inst'.log.failed]]
  /\ UNCHANGED <<eth, now, waiter, fresh>>

(***************************************************************************)
(* waitForConnection and the steps of the waiting task.                    *)
(***************************************************************************)
WaitForConnection(timeout) ==
  /\ WaiterFree
  /\ inst' = WaitEntryInst(Enter(inst, "waitForConnection"), timeout)
  /\ waiter' = WaitEntryWaiter(Enter(inst, "waitForConnection"), timeout,
                               "wait", 0)
  /\ UNCHANGED <<eth, now, mutexHolder, fresh, initTask>>

\* xEventGroupWaitBits returns with BIT_CONNECTED set.
WaitSignalled ==
  /\ waiter.pc = "blocked"
  /\ inst.ethEventGroup /\ inst.bitConnected
  /\ waiter' = [waiter EXCEPT !.pc = "done", !.result = "OK", !.retAt = now]
  /\ inst' = AfterWait(Enter(inst, "waitReturn"), waiter', LockOk)
  /\ UNCHANGED <<eth, now, mutexHolder, fresh, initTask>>

\* xEventGroupWaitBits returns without the bit: the slice is over, or
\* cleanup() deleted the event group and woke the task.
WaitSliceEnds ==
  /\ waiter.pc = "blocked"
  /\ ~(inst.ethEventGroup /\ inst.bitConnected)
  /\ now >= waiter.wakeAt \/ ~inst.ethEventGroup
  /\ inst' = SliceInst(Enter(inst, "waitSlice"), waiter, eth.linkUp)
  /\ waiter' = SliceWaiter(inst, waiter)
  /\ Bounded(inst')
  /\ UNCHANGED <<eth, now, mutexHolder, fresh, initTask>>

(***************************************************************************)
(* The other public operations.                                            *)
(***************************************************************************)
DoDisconnect ==
  /\ inst' = Disconnect(Enter(inst, "disconnect"), LockOk)
  /\ Bounded(inst')
  /\ UNCHANGED <<eth, now, waiter, mutexHolder, fresh, initTask>>

DoResetInterface ==
  /\ inst' = ResetInterface(Enter(inst, "resetInterface"), LockOk)
  /\ UNCHANGED <<eth, now, waiter, mutexHolder, fresh, initTask>>

DoCleanup ==
  /\ inst' = Cleanup(Enter(inst, "cleanup"), LockOk)
  /\ UNCHANGED <<eth, now, waiter, mutexHolder, fresh, initTask>>

DoSetAutoReconnect(enable, maxRetries, initialDelayMs, maxDelayMs) ==
  /\ inst' = SetAutoReconnect(Enter(inst, "setAutoReconnect"), LockOk, enable,
                              maxRetries, initialDelayMs, maxDelayMs)
  /\ UNCHANGED <<eth, now, waiter, mutexHolder, fresh, initTask>>

DoSetLinkMonitoring(enable, intervalMs) ==
  /\ inst' = SetLinkMonitoring(Enter(inst, "setLinkMonitoring"), LockOk,
                               enable, intervalMs)
  /\ UNCHANGED <<eth, now, waiter, mutexHolder, fresh, initTask>>

DoSetMacAddress(mac) ==
  /\ inst' = SetMacAddress(Enter(inst, "setMacAddress"), LockOk, mac)
  /\ UNCHANGED <<eth, now, waiter, mutexHolder, fresh, initTask>>

DoResetStatistics ==
  /\ inst' = ResetStatistics(Enter(inst, "resetStatistics"), LockOk)
  /\ UNCHANGED <<eth, now, waiter, mutexHolder, fresh, initTask>>

DoGetQuickStatus ==
  /\ inst' = GetQuickStatus(Enter(inst, "getQuickStatus"))
  /\ UNCHANGED <<eth, now, waiter, mutexHolder, fresh, initTask>>

CallbackSlots ==
  {"connectedCallback", "disconnectedCallback", "stateChangeCallback",
   "linkStatusCallback"}

\* set...Callback(callback): callback is TRUE for a function, FALSE for
\* nullptr.
SetCallback(slot, callback) ==
  /\ inst' = IF LockOk
             THEN [Enter(inst, "setCallback") EXCEPT ![slot] = callback]
             ELSE Enter(inst, "setCallback")
  /\ UNCHANGED <<eth, now, waiter, mutexHolder, fresh, initTask>>

\* checkLinkStatus().
DoCheckLinkStatus ==
  /\ inst' = UpdateLinkStatus(Enter(inst, "checkLinkStatus"), eth.linkUp)
  /\ Bounded(inst')
  /\ UNCHANGED <<eth, now, waiter, mutexHolder, fresh, initTask>>

(***************************************************************************)
(* Timer callbacks.  The link-monitor timer reloads itself; the reconnect  *)
(* timer is one-shot and goes dormant when it expires.                     *)
(***************************************************************************)
LinkMonitorTask ==
  /\ inst.linkMonitorTimer.active
  /\ inst' = UpdateLinkStatus(Enter(inst, "linkMonitorTask"), eth.linkUp)
  /\ Bounded(inst')
  /\ UNCHANGED <<eth, now, waiter, mutexHolder, fresh, initTask>>

ReconnectTimerFires ==
  /\ inst.reconnectTimer.active
  /\ inst' = AttemptReconnect(
               [Enter(inst, "attemptReconnect") EXCEPT
                  !.reconnectTimer.active = FALSE],
               LockOk)
  /\ Bounded(inst')
  /\ UNCHANGED <<eth, now, waiter, mutexHolder, fresh, initTask>>

\* checkLinkStatus() called by a second task, part by part.
CheckLinkStatusReads ==
  /\ ~inst.inUpdateLinkStatus
  /\ inst' = UpdateLinkStatusReads(Enter(inst, "checkLinkStatus"), eth.linkUp)
  /\ inst'.inUpdateLinkStatus
  /\ UNCHANGED <<eth, now, waiter, mutexHolder, fresh, initTask>>

CheckLinkStatusApplies ==
  /\ inst.inUpdateLinkStatus
  /\ inst' = UpdateLinkStatusApplies(Enter(inst, "checkLinkStatus"))
  /\ Bounded(inst')
  /\ UNCHANGED <<eth, now, waiter, mutexHolder, fresh, initTask>>

\* The reconnect timer expires and its callback runs, however many times
\* it has run before.
ReconnectChainStep ==
  /\ inst.reconnectTimer.active
  /\ inst' = AttemptReconnect(
               [Enter(inst, "attemptReconnect") EXCEPT
                  !.reconnectTimer.active = FALSE],
               LockOk)
  /\ UNCHANGED <<eth, now, waiter, mutexHolder, fresh, initTask>>

\* The reconnect timer's callback, section by section.
ReconnectCallbackCounts ==
  /\ inst.reconnectTimer.active
  /\ ~inst.inAttemptReconnect
  /\ inst' = AttemptReconnectCount(
               [Enter(inst, "attemptReconnect") EXCEPT
                  !.reconnectTimer.active = FALSE],
               LockOk)
  /\ Bounded(inst')
  /\ UNCHANGED <<eth, now, waiter, mutexHolder, fresh, initTask>>

ReconnectCallbackSchedules ==
  /\ inst.inAttemptReconnect
  /\ inst' = AttemptReconnectSchedule(Enter(inst, "attemptReconnect"), LockOk)
  /\ UNCHANGED <<eth, now, waiter, mutexHolder, fresh, initTask>>

(***************************************************************************)
(* The same call or event on inst and on the fresh instance, with the same *)
(* platform answers, the same clock and the same link reading.             *)
(***************************************************************************)
\* initializeAsync(p) on inst, which cleanup() has just torn down, and on a
\* just-constructed instance.
PairedInitializeAsync(p) ==
  \E regOk \in RegResults :
    /\ fresh = <<>>
    /\ inst.log.op = "cleanup"
    /\ inst' = Wrap(InternalInit(Enter(inst, "initializeAsync"), p, 0, FALSE,
                                 LockOk, regOk, TRUE))
    /\ fresh' = <<Wrap(InternalInit(Enter(InitInst, "initializeAsync"), p, 0,
                                    FALSE, LockOk, regOk, TRUE))>>
    /\ eth' = BeginEffect(inst', TRUE)
    /\ UNCHANGED <<now, waiter, mutexHolder, initTask>>

PairedEthEvent(ev) ==
  /\ fresh # <<>>
  /\ eth.started
  /\ inst.eventHandlersRegistered
  /\ fresh[1].eventHandlersRegistered
  /\ inst' = OnEthEvent(Enter(inst, ev), ev, eth.linkUp)
  /\ fresh' = <<OnEthEvent(Enter(fresh[1], ev), ev, eth.linkUp)>>
  /\ Bounded(inst')
  /\ Bounded(fresh'[1])
  /\ UNCHANGED <<eth, now, waiter, mutexHolder, initTask>>

PairedCheckLinkStatus ==
  /\ fresh # <<>>
  /\ inst' = UpdateLinkStatus(Enter(inst, "checkLinkStatus"), eth.linkUp)
  /\ fresh' = <<UpdateLinkStatus(Enter(fresh[1], "checkLinkStatus"),
                                 eth.linkUp)>>
  /\ Bounded(inst')
  /\ Bounded(fresh'[1])
  /\ UNCHANGED <<eth, now, waiter, mutexHolder, initTask>>

(***************************************************************************)
(* The connection state machine: initialisation in all its forms, the      *)
(* event bridge, the link poll, teardown of the interface.                 *)
(***************************************************************************)
Events ==
  {"GOT_IP", "ETH_START", "ETH_CONNECTED", "ETH_DISCONNECTED", "ETH_STOP"}

Next ==
  \/ Tick(TickMs, MaxTime)
  \/ LinkChange
  \/ \E ev \in Events : EthEvent(ev)
  \/ InitializeAsync(GoodParams, 0, TRUE)
  \/ DoDisconnect
  \/ DoResetInterface
  \/ DoCheckLinkStatus

Spec == Init /\ [][Next]_vars

(***************************************************************************)
(* Initialisation: every public form, with valid and invalid parameters,   *)
(* on a manager that is or is not started.                                 *)
(***************************************************************************)
InitNext ==
  \/ EthEvent("GOT_IP")
  \/ \E p \in ParamCases : InitializeAsync(p, 0, TRUE)
  \/ \E beginOk \in BOOLEAN : InitializeAsync(GoodParams, 1, beginOk)
  \/ \E p \in ParamCases : Initialize(p, TRUE)
  \/ \E ip \in BOOLEAN, beginOk \in BOOLEAN, configOk \in BOOLEAN :
       InitializeStatic(GoodParams, ip, TRUE, TRUE, beginOk, configOk)
  \/ \E c \in ConfigCases, async \in BOOLEAN :
       InitializeConfig(c, async, TRUE, TRUE)
  \/ WaitSignalled
  \/ WaitSliceEnds
  \/ DoCleanup

InitSpec == Init /\ [][InitNext]_vars

(***************************************************************************)
(* Auto-reconnect: the backoff chain the reconnect timer runs between a    *)
(* confirmed disconnect and the next address.                              *)
(***************************************************************************)
ReconnectNext ==
  \/ Tick(TickMs, MaxTime)
  \/ InitializeAsync(GoodParams, 0, TRUE)
  \/ \E ev \in {"GOT_IP", "ETH_DISCONNECTED", "ETH_STOP"} : EthEvent(ev)
  \/ \E e \in BOOLEAN, n \in RetryLimits, d \in InitialDelays,
        m \in MaxDelays : DoSetAutoReconnect(e, n, d, m)
  \/ ReconnectTimerFires
  \/ SetCallback("disconnectedCallback", TRUE)

ReconnectSpec == Init /\ [][ReconnectNext]_vars

(***************************************************************************)
(* Waiting: a task inside waitForConnection or a blocking initialisation,  *)
(* while events arrive and other tasks call in or hold the mutex.          *)
(***************************************************************************)
WaitNext ==
  \/ Tick(WaitTickMs, WaitMaxTime)
  \/ \E t \in WaitTimeouts : WaitForConnection(t)
  \/ WaitSignalled
  \/ WaitSliceEnds
  \/ \E p \in {GoodParams, [GoodParams EXCEPT !.hostname = NullHostname]} :
       InitializeAsync(p, 0, TRUE)
  \/ Initialize(GoodParams, TRUE)
  \/ InitializeStatic(GoodParams, TRUE, TRUE, TRUE, TRUE, TRUE)
  \/ EthEvent("GOT_IP")
  \/ DoCleanup
  \/ OtherTaskLocks
  \/ OtherTaskUnlocks

WaitSpec == Init /\ [][WaitNext]_vars

(***************************************************************************)
(* Round trip: a session of the manager, cleanup(), and then the same      *)
(* initialisation and inputs on it and on a fresh instance.                *)
(***************************************************************************)
RoundTripNext ==
  \/ Tick(TickMs, MaxTime)
  \/ LinkChange
  \/ fresh = <<>> /\ InitializeAsync(GoodParams, 0, TRUE)
  \/ fresh = <<>> /\ \E ev \in Events : EthEvent(ev)
  \/ fresh = <<>> /\ DoCleanup
  \/ PairedInitializeAsync(GoodParams)
  \/ \E ev \in Events : PairedEthEvent(ev)
  \/ PairedCheckLinkStatus

RoundTripSpec == Init /\ [][RoundTripNext]_vars

(***************************************************************************)
(* Service calls on a running manager: statistics and their reset, the     *)
(* quick status, callbacks, while another task may hold the mutex.         *)
(***************************************************************************)
ServiceNext ==
  \/ Tick(TickMs, MaxTime)
  \/ InitializeAsync(GoodParams, 0, TRUE)
  \/ \E ev \in {"GOT_IP", "ETH_DISCONNECTED"} : EthEvent(ev)
  \/ DoDisconnect
  \/ DoResetStatistics
  \/ DoGetQuickStatus
  \/ SetCallback("stateChangeCallback", TRUE)
  \/ OtherTaskLocks
  \/ OtherTaskUnlocks

ServiceSpec == Init /\ [][ServiceNext]_vars

(***************************************************************************)
(* Two tasks call initializeAsync at the same time, while the event loop   *)
(* delivers the driver's events.                                           *)
(***************************************************************************)
ConcurrentNext ==
  \/ \E t \in Tasks : InitCallEnters(t, GoodParams)
  \/ \E t \in Tasks, beginOk \in BOOLEAN : InitCallLocks(t, beginOk)
  \/ \E t \in Tasks : InitCallLockTimeout(t)
  \/ \E t \in Tasks : InitCallReturns(t)
  \/ \E ev \in Events : EthEvent(ev)
  \/ LinkChange

ConcurrentSpec == Init /\ [][ConcurrentNext]_vars

(***************************************************************************)
(* Recovery and teardown: initialisation that fails or succeeds, events,   *)
(* the reconnect timer, resetInterface() and disconnect().                 *)
(***************************************************************************)
RecoveryNext ==
  \/ Tick(TickMs, MaxTime)
  \/ \E p \in {GoodParams, [GoodParams EXCEPT !.hostname = NullHostname]} :
       InitializeAsync(p, 0, TRUE)
  \/ \E ev \in {"GOT_IP", "ETH_DISCONNECTED"} : EthEvent(ev)
  \/ \E e \in BOOLEAN, d \in InitialDelays, m \in MaxDelays :
       DoSetAutoReconnect(e, 2, d, m)
  \/ ReconnectTimerFires
  \/ DoResetInterface
  \/ DoDisconnect
  \/ SetCallback("disconnectedCallback", TRUE)

RecoverySpec == Init /\ [][RecoveryNext]_vars

(***************************************************************************)
(* The link poll: the link-monitor timer's callback and checkLinkStatus(), *)
(* with a link-status callback, while the link flaps and addresses arrive. *)
(***************************************************************************)
LinkPollNext ==
  \/ LinkChange
  \/ InitializeAsync(GoodParams, 0, TRUE)
  \/ \E enable \in BOOLEAN : DoSetLinkMonitoring(enable, 1000)
  \/ LinkMonitorTask
  \/ DoCheckLinkStatus
  \/ SetCallback("linkStatusCallback", TRUE)
  \/ SetCallback("stateChangeCallback", TRUE)
  \/ EthEvent("GOT_IP")
  \/ DoResetInterface

LinkPollSpec == Init /\ [][LinkPollNext]_vars

(***************************************************************************)
(* The event bridge: the events of a session with the link going up and    *)
(* down under them, a reset, and the reconnect chain running.              *)
(***************************************************************************)
EventNext ==
  \/ Tick(TickMs, MaxTime)
  \/ LinkChange
  \/ InitializeAsync(GoodParams, 0, TRUE)
  \/ \E ev \in {"GOT_IP", "ETH_CONNECTED", "ETH_DISCONNECTED"} : EthEvent(ev)
  \/ \E d \in InitialDelays, m \in MaxDelays : DoSetAutoReconnect(TRUE, 0, d, m)
  \/ ReconnectTimerFires
  \/ DoResetInterface

EventSpec == Init /\ [][EventNext]_vars

(***************************************************************************)
(* Abandoned waits: a wait runs out while the link is polled, and the      *)
(* address arrives afterwards.                                             *)
(***************************************************************************)
TimeoutNext ==
  \/ Tick(WaitTickMs, WaitMaxTime)
  \/ LinkChange
  \/ \E t \in WaitTimeouts : WaitForConnection(t)
  \/ WaitSignalled
  \/ WaitSliceEnds
  \/ InitializeAsync(GoodParams, 0, TRUE)
  \/ Initialize(GoodParams, TRUE)
  \/ \E enable \in BOOLEAN : DoSetLinkMonitoring(enable, 1000)
  \/ EthEvent("GOT_IP")

TimeoutSpec == Init /\ [][TimeoutNext]_vars

(***************************************************************************)
(* Cancelling auto-reconnect: disconnect() and setAutoReconnect() called    *)
(* while the reconnect timer is armed or its callback is running.          *)
(***************************************************************************)
CancelNext ==
  \/ Tick(TickMs, MaxTime)
  \/ InitializeAsync(GoodParams, 0, TRUE)
  \/ \E ev \in {"GOT_IP", "ETH_DISCONNECTED"} : EthEvent(ev)
  \/ \E e \in BOOLEAN, n \in RetryLimits, d \in InitialDelays,
        m \in MaxDelays : DoSetAutoReconnect(e, n, d, m)
  \/ ReconnectCallbackCounts
  \/ ReconnectCallbackSchedules
  \/ DoDisconnect

CancelSpec == Init /\ [][CancelNext]_vars

(***************************************************************************)
(* Observers of the link: the monitor timer, a task inside                 *)
(* checkLinkStatus() and the event bridge, looking at the same link while  *)
(* it changes.                                                             *)
(***************************************************************************)
ObserverNext ==
  \/ Tick(TickMs, MaxTime)
  \/ LinkChange
  \/ InitializeAsync(GoodParams, 0, TRUE)
  \/ DoSetLinkMonitoring(TRUE, 1000)
  \/ LinkMonitorTask
  \/ CheckLinkStatusReads
  \/ CheckLinkStatusApplies
  \/ SetCallback("linkStatusCallback", TRUE)
  \/ \E ev \in {"GOT_IP", "ETH_CONNECTED", "ETH_DISCONNECTED"} : EthEvent(ev)

ObserverSpec == Init /\ [][ObserverNext]_vars

(***************************************************************************)
(* The backoff chain run to its end: auto-reconnect is configured while it *)
(* is off, the chain is started by resetInterface() while the timer is     *)
(* dormant, no address ever arrives, and the timer service runs the        *)
(* callback whenever the timer has expired.                                *)
(***************************************************************************)
ChainRetryLimits == {1, 255}

ChainNext ==
  \/ InitializeAsync(GoodParams, 0, TRUE)
  \/ /\ ~inst.autoReconnectEnabled
     /\ \E n \in ChainRetryLimits, d \in InitialDelays, m \in MaxDelays :
          DoSetAutoReconnect(TRUE, n, d, m)
  \/ /\ ~inst.reconnectTimer.active
     /\ DoResetInterface
  \/ ReconnectChainStep

ChainSpec == Init /\ [][ChainNext]_vars /\ WF_vars(ReconnectChainStep)

(***************************************************************************)
(* The properties.                                                         *)
(***************************************************************************)
\* The edges of the documented transition table.
TableEdges ==
  {<<UNINITIALIZED, PHY_STARTING>>,
   <<PHY_STARTING, LINK_DOWN>>, <<PHY_STARTING, LINK_UP>>,
   <<LINK_DOWN, LINK_UP>>, <<LINK_UP, LINK_DOWN>>,
   <<LINK_UP, OBTAINING_IP>>, <<OBTAINING_IP, CONNECTED>>,
   <<DISCONNECTING, UNINITIALIZED>>,
   <<OBTAINING_IP, LINK_DOWN>>}
  \cup {<<from, DISCONNECTING>> : from \in EthConnectionState}
  \cup {<<from, ERROR_STATE>> : from \in EthConnectionState}

\* C1: the connection state is always one of the eight states and every
\* change of it made by a handler is an edge of the transition table; in
\* particular no handler moves it from Uninitialized, PhyStarting or
\* LinkDown directly to Connected.
C1_OnlyTableEdges ==
  /\ inst.connectionState \in EthConnectionState
  /\ \A i \in 1..Len(inst.log.trans) : inst.log.trans[i] \in TableEdges

\* C2: whenever the state is Connected, an AddressAcquired event has been
\* processed since the state last entered LinkDown or ErrorState.
C2_ConnectedHasFreshAddress ==
  inst.connectionState = CONNECTED => inst.hist.ipSinceDown

\* C4: with an address obtained, a PhyLinkDown event processed less than
\* the trust window after connectionStartTime changes neither the state,
\* the signal nor the statistics; one processed at or after the window
\* clears the signal, moves the state to LinkDown and adds exactly 1 to
\* disconnectCount and to linkDownEvents.
C4_TrustWindow ==
  [][(EthEvent("ETH_DISCONNECTED") /\ inst.gotIpAtLeastOnce) =>
       IF now - inst.connectionStartTime < ETH_CONNECTION_TRUST_WINDOW_MS
       THEN /\ inst'.connectionState = inst.connectionState
            /\ inst'.previousState = inst.previousState
            /\ inst'.bitConnected = inst.bitConnected
            /\ inst'.stats = inst.stats
            /\ inst'.log.trans = <<>>
       ELSE /\ ~inst'.bitConnected
            /\ inst'.connectionState = LINK_DOWN
            /\ inst'.stats.disconnectCount = inst.stats.disconnectCount + 1
            /\ inst'.stats.linkDownEvents = inst.stats.linkDownEvents + 1
  ]_vars

\* A PhyLinkDown event has just been processed exactly when the trust window
\* ended, on a connected manager: the disconnect is counted.
C4_Witness ==
  /\ inst.log.op = "ETH_DISCONNECTED"
  /\ inst.log.trans = <<<<CONNECTED, LINK_DOWN>>>>
  /\ now - inst.connectionStartTime = ETH_CONNECTION_TRUST_WINDOW_MS
  /\ inst.stats.disconnectCount = 1
  /\ inst.stats.linkDownEvents = 1
  /\ ~inst.bitConnected

\* C3: a PhyLinkDown or PhyStopped event processed while the
\* address-ever-obtained flag is false changes neither the connection
\* state, the connected signal, disconnectCount, linkDownEvents nor the
\* reconnect timer, and invokes no callback.
C3_StartupNoiseIgnored ==
  [][\A ev \in {"ETH_DISCONNECTED", "ETH_STOP"} :
       (EthEvent(ev) /\ ~inst.gotIpAtLeastOnce) =>
          /\ inst'.connectionState = inst.connectionState
          /\ inst'.bitConnected = inst.bitConnected
          /\ inst'.stats.disconnectCount = inst.stats.disconnectCount
          /\ inst'.stats.linkDownEvents = inst.stats.linkDownEvents
          /\ inst'.reconnectTimer = inst.reconnectTimer
          /\ inst'.log.cb = <<>>
  ]_vars

\* A link-loss event has just been processed, long after the trust window,
\* on a started manager that never had an address, with auto-reconnect
\* enabled and a disconnected callback registered: nothing was counted and
\* the timer is dormant.
C3_Witness ==
  /\ inst.log.op \in {"ETH_DISCONNECTED", "ETH_STOP"}
  /\ inst.phyStarted
  /\ ~inst.gotIpAtLeastOnce
  /\ inst.stats.connectTime = 0
  /\ inst.stats.disconnectCount = 0
  /\ now - inst.connectionStartTime >= ETH_CONNECTION_TRUST_WINDOW_MS
  /\ inst.disconnectedCallback
  /\ inst.autoReconnectEnabled
  /\ inst.reconnectTimer.created
  /\ ~inst.reconnectTimer.active
  /\ inst.log.cb = <<>>

\* A call of one of the dynamic-address initialisation forms.
DynamicInitCall ==
  \/ \E p \in ParamCases, m \in {0, 1}, beginOk \in BOOLEAN :
       InitializeAsync(p, m, beginOk)
  \/ \E p \in ParamCases : Initialize(p, TRUE)
  \/ \E c \in {cc \in ConfigCases : ~cc.use_static_ip}, async \in BOOLEAN :
       InitializeConfig(c, async, TRUE, TRUE)

\* C5: a dynamic-address initialize or initializeAsync call, in parameter
\* or configuration-object form, on a manager that is already started
\* returns AlreadyInitialized and leaves the state, the previous state,
\* the statistics, the auto-reconnect settings and attempt counter and the
\* hardware-address override as they were, without calling ETH.begin.
C5_SecondInitHasNoEffect ==
  [][(inst.phyStarted /\ DynamicInitCall) =>
       /\ inst'.log.result = "ALREADY_INITIALIZED"
       /\ ~inst'.log.begin
       /\ inst'.connectionState = inst.connectionState
       /\ inst'.previousState = inst.previousState
       /\ inst'.stats = inst.stats
       /\ inst'.autoReconnectEnabled = inst.autoReconnectEnabled
       /\ inst'.reconnectMaxRetries = inst.reconnectMaxRetries
       /\ inst'.reconnectInitialDelay = inst.reconnectInitialDelay
       /\ inst'.reconnectMaxDelay = inst.reconnectMaxDelay
       /\ inst'.reconnectAttempts = inst.reconnectAttempts
       /\ inst'.hasCustomMac = inst.hasCustomMac
       /\ inst'.customMacAddress = inst.customMacAddress
  ]_vars

\* A parameter-form initialisation call with a null or an empty hostname.
MissingHostnameCall ==
  /\ inst'.log.op \in {"initialize", "initializeAsync"}
  /\ \E p \in {pp \in ParamCases : pp.hostname \in {NullHostname, 0}} :
       \/ Initialize(p, TRUE)
       \/ \E m \in {0, 1}, beginOk \in BOOLEAN :
            InitializeAsync(p, m, beginOk)

\* C6: initialize with a null or an empty hostname, on a manager that is
\* not started, returns InvalidParameter, leaves the state at ErrorState,
\* does not call ETH.begin and leaves the manager not started.
C6_MissingHostnameRejected ==
  [][(~inst.phyStarted /\ MissingHostnameCall) =>
       /\ inst'.log.result = "INVALID_PARAMETER"
       /\ inst'.lastError = "INVALID_PARAMETER"
       /\ inst'.connectionState = ERROR_STATE
       /\ ~inst'.log.begin
       /\ ~inst'.phyStarted
       /\ eth' = eth
       /\ waiter' = waiter
  ]_vars

\* initialize with an empty hostname has just returned on a manager that
\* was never started: InvalidParameter, ErrorState entered by this call.
C6_Witness ==
  /\ inst.log.op = "initialize"
  /\ inst.log.result = "INVALID_PARAMETER"
  /\ inst.log.trans = <<<<UNINITIALIZED, ERROR_STATE>>>>
  /\ inst.connectionState = ERROR_STATE
  /\ ~inst.log.begin
  /\ ~inst.phyStarted
  /\ ~eth.started

\* The connected signal as a waiting task sees it.
Signalled == inst.ethEventGroup /\ inst.bitConnected

C8_WaitCanReturn == waiter.pc # "crashed"

\* C9: a confirmed disconnect that arms the reconnect timer arms it with
\* the initial delay D, and no armed delay exceeds the maximum M.
C9_ChainStartsAtInitialDelay ==
  /\ inst.reconnectTimer.active =>
       inst.reconnectTimer.period <= inst.reconnectMaxDelay
  /\ (inst.log.op \in {"ETH_DISCONNECTED", "ETH_STOP"}
      /\ inst.log.trans # <<>> /\ inst.reconnectTimer.active) =>
       inst.reconnectTimer.period = inst.reconnectInitialDelay

C11_RoundTripSameStates ==
  fresh # <<>> =>
     /\ inst.connectionState = fresh[1].connectionState
     /\ inst.previousState = fresh[1].previousState
     /\ inst.log.trans = fresh[1].log.trans
     /\ inst.log.cb = fresh[1].log.cb

\* C12: when cleanup() has completed, the manager's logical state is that
\* of a just-constructed instance, the connected-signal object included.
C12_CleanupRestoresConstructed ==
  (inst.log.op = "cleanup" /\ mutexHolder = "none") =>
     [inst EXCEPT !.log = NoLog, !.hist = NoHist] = InitInst

C14_QuickStatusFollowsState ==
  inst.log.op = "getQuickStatus" =>
     /\ ~IsConnected(inst) => inst.log.result = "FALSE"
     /\ inst.connectionState = CONNECTED => inst.log.result = "TRUE"

\* C15: a request for a transition to the current state changes nothing:
\* not the state, the previous state or a milestone timestamp, and it
\* invokes no state-change callback.  Checked on the function, and on the
\* AddressAcquired event that arrives in Connected.
C15_SelfTransitionIsNoOp ==
  /\ [](ChangeState(inst, inst.connectionState) = inst)
  /\ [][(EthEvent("GOT_IP") /\ inst.connectionState = CONNECTED) =>
          /\ inst'.connectionState = CONNECTED
          /\ inst'.previousState = inst.previousState
          /\ inst'.initStartTime = inst.initStartTime
          /\ inst'.linkUpTime = inst.linkUpTime
          /\ inst'.ipObtainedTime = inst.ipObtainedTime
          /\ inst'.log.trans = <<>>
          /\ \A i \in 1..Len(inst'.log.cb) :
                inst'.log.cb[i].cb # "stateChange"
     ]_vars

\* An AddressAcquired event has just been processed in Connected, later
\* than the one that entered Connected, with a state-change callback
\* registered: no transition was made and the timestamp is the old one.
C15_Witness ==
  /\ inst.log.op = "GOT_IP"
  /\ inst.connectionState = CONNECTED
  /\ inst.previousState # CONNECTED
  /\ inst.stateChangeCallback
  /\ inst.log.trans = <<>>
  /\ inst.log.cb = <<>>
  /\ inst.ipObtainedTime > 0
  /\ now > inst.ipObtainedTime

\* C16: every user callback is invoked while the invoking task does not
\* hold the mutex.
C16_CallbacksOutsideLock ==
  \A i \in 1..Len(inst.log.cb) : ~inst.log.cb[i].locked

\* The connection state, the flags and the statistics of the state store.
StoreFields(s) ==
  <<s.connectionState, s.previousState, s.phyStarted, s.gotIpAtLeastOnce,
    s.bitConnected, s.lastLinkStatus, s.connectionStartTime, s.stats>>

\* C17: mutations of the state store are serialized by the mutex: the
\* event bridge does not modify the connection state, the flags or the
\* statistics while an initializer is inside its guarded section.
C17_MutationsSerialized ==
  [][(mutexHolder \in Tasks /\ StoreFields(inst') # StoreFields(inst)) =>
       ~(\E ev \in Events : EthEvent(ev))
  ]_vars

\* C18: of two concurrent initializeAsync calls on a manager that is not
\* started at most one brings the transceiver up, and when both have
\* returned at least one of them has returned an error.
C18_OneInitTakesEffect ==
  /\ Cardinality({t \in Tasks :
                    initTask[t].began /\ initTask[t].beginOk}) <= 1
  /\ (\A t \in Tasks : initTask[t].pc = "done") =>
        \E t \in Tasks : initTask[t].failed

\* An initialisation call with valid parameters on a manager that is not
\* started, made while another task holds the mutex.
InitCallWithoutLock ==
  /\ mutexHolder = "other"
  /\ ~inst.phyStarted
  /\ \/ InitializeAsync(GoodParams, 0, TRUE)
     \/ Initialize(GoodParams, TRUE)
     \/ InitializeStatic(GoodParams, TRUE, TRUE, TRUE, TRUE, TRUE)

\* C19: an initializer that cannot take the mutex within its timeout
\* returns a MutexTimeout error, without calling ETH.begin and with no
\* field of the state store modified.
C19_LockTimeoutReported ==
  [][InitCallWithoutLock =>
       /\ inst'.log.failed
       /\ inst'.log.result = "MUTEX_TIMEOUT"
       /\ ~inst'.log.begin
       /\ [inst' EXCEPT !.log = inst.log] = inst
  ]_vars

\* The error kinds that name a cause of a failed initialisation.
InitFailureKinds ==
  {"INVALID_PARAMETER", "MUTEX_TIMEOUT", "ALREADY_INITIALIZED",
   "PHY_START_FAILED", "CONFIG_FAILED", "CONNECTION_TIMEOUT",
   "EVENT_HANDLER_FAILED", "MEMORY_ALLOCATION_FAILED"}

\* C20: an initialisation call that fails returns an error kind that
\* names a cause of failure, never OK: at once, or after its wait.
C20_FailureCarriesCause ==
  /\ inst.log.failed => inst.log.result \in InitFailureKinds
  /\ (waiter.pc = "done" /\ waiter.kind = "init" /\ waiter.result # "OK") =>
        waiter.result \in InitFailureKinds

\* An initialisation call with a parameter that validation rejects: a PHY
\* address or pin out of range or an over-long hostname in a dynamic form,
\* a zero address in the fixed-address form.
RejectedInitCall ==
  \/ \E p \in {pp \in ParamCases :
                  pp.hostname > ETH_MAX_HOSTNAME_LENGTH
                  \/ pp.phy_addr > ETH_MAX_PHY_ADDRESS
                  \/ ~ValidPin(pp.mdc_pin)} :
       InitializeAsync(p, 0, TRUE) \/ Initialize(p, TRUE)
  \/ \E beginOk \in BOOLEAN, configOk \in BOOLEAN :
       InitializeStatic(GoodParams, FALSE, TRUE, TRUE, beginOk, configOk)

\* C21: an initialisation call, dynamic or fixed-address, with a rejected
\* parameter on a manager that is not started fails without calling
\* ETH.begin and leaves the connection state at ErrorState.
C21_RejectedParameterToErrorState ==
  [][(~inst.phyStarted /\ RejectedInitCall) =>
       /\ inst'.log.failed
       /\ ~inst'.log.begin
       /\ ~inst'.phyStarted
       /\ inst'.connectionState = ERROR_STATE
  ]_vars

\* An initialisation call with valid parameters whose bring-up fails:
\* ETH.begin in the dynamic form, ETH.begin or ETH.config in the
\* fixed-address form.
FailedBringUpCall ==
  \/ InitializeAsync(GoodParams, 1, FALSE)
  \/ \E beginOk \in BOOLEAN, configOk \in BOOLEAN :
       /\ ~(beginOk /\ configOk)
       /\ InitializeStatic(GoodParams, TRUE, TRUE, TRUE, beginOk, configOk)

\* C22: when the bring-up of an initialisation call fails, the call
\* returns failure, the last error is PhyStartFailed or ConfigFailed, the
\* connection state is ErrorState, the manager is not started and the
\* mutex is free.
C22_BringUpFailureRecorded ==
  [][(~inst.phyStarted /\ FailedBringUpCall /\ inst'.log.begin) =>
       /\ inst'.log.failed
       /\ inst'.lastError \in {"PHY_START_FAILED", "CONFIG_FAILED"}
       /\ inst'.connectionState = ERROR_STATE
       /\ ~inst'.phyStarted
       /\ ~inst'.locked
  ]_vars

\* Any initialisation call of the model, of either kind.
AnyInitCall ==
  \/ \E p \in ParamCases, m \in {0, 1}, beginOk \in BOOLEAN :
       InitializeAsync(p, m, beginOk)
  \/ \E p \in ParamCases : Initialize(p, TRUE)
  \/ \E ip \in BOOLEAN, beginOk \in BOOLEAN, configOk \in BOOLEAN :
       InitializeStatic(GoodParams, ip, TRUE, TRUE, beginOk, configOk)
  \/ \E c \in ConfigCases, async \in BOOLEAN :
       InitializeConfig(c, async, TRUE, TRUE)

\* C23: a fixed-address initialisation whose bring-up succeeds leaves the
\* manager started in a state other than Uninitialized, entered through
\* PhyStarting; any initialisation call made after it, while the manager
\* is started, returns AlreadyInitialized without calling ETH.begin.
C23_StaticInitProtectsAgainstSecond ==
  [][/\ (~inst.phyStarted
         /\ InitializeStatic(GoodParams, TRUE, TRUE, TRUE, TRUE, TRUE)
         /\ inst'.log.begin) =>
           /\ inst'.phyStarted
           /\ inst'.connectionState # UNINITIALIZED
           /\ inst'.log.trans = <<<<UNINITIALIZED, PHY_STARTING>>>>
     /\ (inst.phyStarted /\ inst.log.op = "initializeStatic"
         /\ AnyInitCall) =>
           /\ inst'.log.result = "ALREADY_INITIALIZED"
           /\ ~inst'.log.begin
  ]_vars

\* An initializeAsync call with valid parameters whose bring-up succeeds:
\* the parameter form, and the configuration-object form with a dynamic
\* or a fixed address.
AsyncInitCall ==
  \/ \E m \in {0, 1} : InitializeAsync(GoodParams, m, TRUE)
  \/ \E c \in {cc \in ConfigCases : cc.hostname # NullHostname} :
       InitializeConfig(c, TRUE, TRUE, TRUE)

\* C24: an initializeAsync call returns success right after the bring-up,
\* without entering the wait for the connection.
C24_AsyncDoesNotWait ==
  [][(~inst.phyStarted /\ AsyncInitCall /\ inst'.log.begin) =>
       /\ inst'.log.result = "OK"
       /\ ~inst'.log.failed
       /\ waiter' = waiter
  ]_vars

\* C25: resetInterface() in ErrorState returns true, moves the state to
\* LinkDown and clears the connected signal; on a started manager it
\* returns true and, with auto-reconnect enabled, leaves the reconnect
\* timer armed with the initial delay and the attempt counter at 0.
C25_ResetRecovers ==
  [][/\ (DoResetInterface /\ inst.connectionState = ERROR_STATE) =>
          /\ inst'.log.result = "OK"
          /\ inst'.connectionState = LINK_DOWN
          /\ ~inst'.bitConnected
     /\ (DoResetInterface /\ inst.phyStarted) =>
          /\ inst'.log.result = "OK"
          /\ inst.autoReconnectEnabled =>
                /\ inst'.reconnectTimer.active
                /\ inst'.reconnectTimer.period = inst.reconnectInitialDelay
                /\ inst'.reconnectAttempts = 0
  ]_vars

\* C26: disconnect() in a state other than Uninitialized goes through
\* Disconnecting to Uninitialized, leaves the manager not started and not
\* connected, auto-reconnect disabled and both timers stopped, and
\* invokes the disconnected callback if one is registered.
C26_DisconnectTearsDown ==
  [][(DoDisconnect /\ inst.connectionState # UNINITIALIZED) =>
       /\ inst'.log.trans = <<<<inst.connectionState, DISCONNECTING>>,
                               <<DISCONNECTING, UNINITIALIZED>>>>
       /\ inst'.connectionState = UNINITIALIZED
       /\ ~inst'.phyStarted
       /\ ~IsConnected(inst')
       /\ ~inst'.autoReconnectEnabled
       /\ ~inst'.reconnectTimer.active
       /\ ~inst'.linkMonitorTimer.active
       /\ inst.disconnectedCallback =>
             \E i \in 1..Len(inst'.log.cb) :
                inst'.log.cb[i].cb = "disconnected"
  ]_vars

C28_LinkEstablishedObtainsAddress ==
  [][/\ (/\ EthEvent("ETH_CONNECTED")
         /\ inst.phyStarted
         /\ ~inst.gotIpAtLeastOnce
         /\ ~inst.bitConnected) =>
           /\ inst'.connectionState = OBTAINING_IP
           /\ inst'.connectionStartTime = now
     /\ (/\ \E ev \in {"GOT_IP", "ETH_CONNECTED", "ETH_DISCONNECTED"} :
              EthEvent(ev)
         /\ inst.connectionState = OBTAINING_IP
         /\ inst'.connectionState # OBTAINING_IP) =>
           \/ EthEvent("GOT_IP") /\ inst'.connectionState = CONNECTED
           \/ inst'.connectionState = LINK_DOWN
  ]_vars

\* A link poll: the monitor timer's tick or a checkLinkStatus() call.
LinkPoll == LinkMonitorTask \/ DoCheckLinkStatus

\* The link-status callback invocations a call has made.
LinkStatusCalls(s) == SelectSeq(s.log.cb, LAMBDA e : e.cb = "linkStatus")

\* The instance without the record of what the last call did.
Settled(s) == [s EXCEPT !.log = NoLog, !.locked = FALSE]

\* C29: a link poll on a manager that is not started, or that reads the
\* value of the previous poll, changes nothing and calls nothing; a poll
\* that reads a changed value stores it, invokes the registered
\* link-status callback exactly once with the new value, and moves the
\* state to LinkDown with linkDownEvents one higher on loss, to Connected
\* on link-up if the connected signal is set and to LinkUp otherwise.
C29_LinkPoll ==
  [][LinkPoll =>
       IF ~inst.phyStarted \/ eth.linkUp = inst.lastLinkStatus
       THEN /\ Settled(inst') = Settled(inst)
            /\ inst'.log.cb = <<>>
            /\ inst'.log.trans = <<>>
       ELSE /\ inst'.lastLinkStatus = eth.linkUp
            /\ LinkStatusCalls(inst') =
                 IF inst.linkStatusCallback
                 THEN << [cb |-> "linkStatus", old |-> "-", new |-> "-",
                          val |-> IF eth.linkUp THEN 1 ELSE 0,
                          locked |-> FALSE] >>
                 ELSE << >>
            /\ inst'.connectionState =
                 IF ~eth.linkUp THEN LINK_DOWN
                 ELSE IF inst.bitConnected THEN CONNECTED ELSE LINK_UP
            /\ inst'.stats.linkDownEvents =
                 IF ~eth.linkUp THEN inst.stats.linkDownEvents + 1
                 ELSE inst.stats.linkDownEvents
  ]_vars

\* The monitor's tick has just seen the link come back on a manager whose
\* connected signal is set: one link-status callback with the new value,
\* the state back from LinkDown to Connected, the earlier loss counted.
C29_Witness ==
  /\ inst.log.op = "linkMonitorTask"
  /\ inst.lastLinkStatus
  /\ Len(LinkStatusCalls(inst)) = 1
  /\ LinkStatusCalls(inst)[1].val = 1
  /\ inst.log.trans = << <<LINK_DOWN, CONNECTED>> >>
  /\ inst.stats.linkDownEvents = 1

\* C30: within one session (no new entry into PhyStarting), a link-up or
\* address-obtained timestamp that has been recorded is not written
\* again by a later entry into LinkUp or Connected.
C30_MilestonesWrittenOnce ==
  [][(inst.phyStarted /\ inst'.initStartTime = inst.initStartTime) =>
       /\ inst.linkUpTime > 0 => inst'.linkUpTime = inst.linkUpTime
       /\ inst.ipObtainedTime > 0 =>
            inst'.ipObtainedTime = inst.ipObtainedTime
  ]_vars

\* C31: between operations the mutex taken by the manager's own guards
\* is free, on every exit path; in particular a task blocked in the
\* connection wait, direct or as the waiting phase of a blocking
\* initialisation, does not hold it.
C31_NoLockAcrossWait ==
  /\ ~inst.locked
  /\ waiter.pc = "blocked" => ~inst.locked /\ mutexHolder \notin Tasks

\* A blocking initialisation has done its bring-up under the guard and is
\* now blocked in the wait.
C31_Witness ==
  /\ waiter.pc = "blocked"
  /\ waiter.kind = "init"
  /\ inst.log.begin
  /\ inst.phyStarted
  /\ inst.log.op \in {"initialize", "initializeStatic"}

\* The step in which a wait returns ConnectionTimeout.
WaitTimesOut ==
  /\ WaitSliceEnds
  /\ waiter'.pc = "done"
  /\ waiter'.result = "CONNECTION_TIMEOUT"

\* What a timed-out wait leaves alone besides the connection state.
KeptByTimeout(s) ==
  <<s.phyStarted, s.eventHandlersRegistered, s.ethEventGroup, s.bitConnected,
    s.gotIpAtLeastOnce, s.reconnectTimer, s.linkMonitorTimer,
    s.autoReconnectEnabled, s.linkMonitoringEnabled>>

\* An address event after a timed-out wait connects the manager.
AddressAfterTimeout ==
  (/\ EthEvent("GOT_IP")
   /\ waiter.pc = "done"
   /\ waiter.result = "CONNECTION_TIMEOUT") =>
     /\ inst'.connectionState = CONNECTED
     /\ inst'.bitConnected
     /\ IsConnected(inst')
     /\ \A t \in WaitTimeouts \ {0} : WaitEntryResult(inst', t) = "OK"

C33_SignalAgreesWithState ==
  IsConnected(inst) => inst.connectionState = CONNECTED

\* C34: once an address has been acquired and while the state stays
\* Connected, the reconnect timer's callback does not run, the attempt
\* counter stays 0 and auto-reconnect is not switched off behind the
\* caller's back.
C34_NoReconnectWhileConnected ==
  [][(inst.connectionState = CONNECTED /\ inst.gotIpAtLeastOnce) =>
       /\ ~ReconnectTimerFires
       /\ inst'.connectionState = CONNECTED =>
            /\ inst'.reconnectAttempts = 0
            /\ (/\ inst.autoReconnectEnabled
                /\ inst'.log.op # "setAutoReconnect") =>
                  inst'.autoReconnectEnabled
  ]_vars

\* C35: after disconnect() has returned and before the next
\* initialisation, no substrate event moves the connection state away
\* from Uninitialized or makes isConnected() true.
C35_QuietAfterDisconnect ==
  [][(/\ inst.connectionState = UNINITIALIZED
      /\ inst.previousState = DISCONNECTING
      /\ ~inst.phyStarted
      /\ \E ev \in {"GOT_IP", "ETH_CONNECTED", "ETH_DISCONNECTED",
                    "ETH_STOP"} : EthEvent(ev)) =>
       /\ inst'.connectionState = UNINITIALIZED
       /\ ~IsConnected(inst')
  ]_vars

\* C36: while auto-reconnect is off, the reconnect timer's callback does
\* not start an attempt, and a callback that was already between its two
\* guarded sections when auto-reconnect was turned off does not arm the
\* timer again.
C36_NoAttemptAfterCancel ==
  [][~inst.autoReconnectEnabled =>
       /\ ~ReconnectCallbackCounts
       /\ ReconnectCallbackSchedules => ~inst'.reconnectTimer.active
  ]_vars

\* C37: a task inside waitForConnection never goes back into
\* xEventGroupWaitBits on an event group that cleanup() has deleted: when
\* a wait slice ends and the wait goes on, the event group exists.
C37_WaiterNeverUsesDeletedSignal ==
  [][(WaitSliceEnds /\ waiter'.pc \in {"blocked", "crashed"}) =>
       /\ inst.ethEventGroup
       /\ waiter'.pc # "crashed"
  ]_vars

\* C38: in every reachable state the number of counted reconnections is
\* at most the number of counted disconnections.
C38_ReconnectsBoundedByDisconnects ==
  inst.stats.reconnectCount <= inst.stats.disconnectCount

\* A step of one of the observers that run updateLinkStatus(): the
\* monitor timer, a task inside checkLinkStatus(), the event bridge on a
\* link-established event.
ObserverReports ==
  \/ LinkMonitorTask
  \/ CheckLinkStatusApplies
  \/ EthEvent("ETH_CONNECTED")

\* C39: one change of the physical link is reported once.  An observer
\* that invokes the link-status callback or counts a link-down event
\* reports a link value other than the one already stored and reported,
\* invokes the callback at most once and counts at most one link-down
\* event.
C39_LinkChangeReportedOnce ==
  [][(/\ ObserverReports
      /\ \/ Len(LinkStatusCalls(inst')) > 0
         \/ inst'.stats.linkDownEvents # inst.stats.linkDownEvents) =>
       /\ inst'.lastLinkStatus # inst.lastLinkStatus
       /\ Len(LinkStatusCalls(inst')) <= 1
       /\ inst'.stats.linkDownEvents \in
            {inst.stats.linkDownEvents, inst.stats.linkDownEvents + 1}
  ]_vars

\* C40: with a retry limit of 1..255 and no address ever acquired, a
\* running reconnect chain comes to its end (auto-reconnect disabled, the
\* timer not armed), and the current delay does not decrease from one
\* attempt to the next.
C40_ChainEnds ==
  /\ [][(ReconnectChainStep /\ inst.reconnectMaxRetries \in 1..255) =>
          inst'.reconnectCurrentDelay >= inst.reconnectCurrentDelay]_vars
  /\ (inst.reconnectTimer.active /\ inst.reconnectMaxRetries \in 1..255)
       ~> (~inst.autoReconnectEnabled /\ ~inst.reconnectTimer.active)

====
